---- MODULE Spec2Model ----
(***************************************************************************)
(* Model of the chat relay (backend/main.go, chatHandler) and of the chat  *)
(* UI's submit handler (src/App.jsx, handleSubmit).                        *)
(*                                                                         *)
(* A string is a sequence of text pieces (TLA+ strings): single characters *)
(* for user text, whole literals for the fixed messages of the code.       *)
(* A JSON text is represented by its structure, a record [t, v] of the     *)
(* value's type and content (the characters of a string, the elements of   *)
(* an array, the members of an object); its bytes are RawText of it.       *)
(***************************************************************************)
EXTENDS Integers, Sequences, FiniteSets, TLC

VARIABLES
    pc,         \* pc[r]: position of the handler of request r in chatHandler
    reqBody,    \* reqBody[r]: body of the incoming request r
    calls,      \* calls[r]: upstream requests issued by the handler of r
    replies,    \* replies[r]: what client.Do / ReadAll delivered to the handler of r
    responses,  \* responses[r]: responses emitted to the caller of r
    messages,   \* App.jsx: messages state
    input,      \* App.jsx: input state
    isLoading,  \* App.jsx: isLoading state
    uiPc,       \* App.jsx: position of handleSubmit ("idle", "posting", "awaiting")
    uiSlot,     \* request slot the pending axios.post was delivered to (0: none)
    uiLog       \* one record per finished handleSubmit: how its post ended

vars == <<pc, reqBody, calls, replies, responses,
          messages, input, isLoading, uiPc, uiSlot, uiLog>>

relayVars == <<pc, reqBody, calls, replies, responses>>
uiVars == <<messages, input, isLoading, uiPc, uiSlot, uiLog>>

\* Number of requests the relay receives in a run.
NReq == 2

Requests == 1..NReq

(***************************************************************************)
(* JSON values                                                             *)
(***************************************************************************)
JNull == [t |-> "null", v |-> <<>>]
JNum == [t |-> "num", v |-> <<"1">>]
JStr(s) == [t |-> "str", v |-> s]
JArr(a) == [t |-> "arr", v |-> a]
JObj(o) == [t |-> "obj", v |-> o]
\* Bytes that are not a JSON text.
NotJSON(s) == [t |-> "invalid", v |-> s]
Pair(k, v) == [k |-> k, v |-> v]

\* m[key] of a Go map[string]interface{}: nil when the key is absent.
Index(m, key) ==
    IF \E i \in 1..Len(m) : m[i].k = key
    THEN m[CHOOSE i \in 1..Len(m) : m[i].k = key].v
    ELSE JNull

\* json.Unmarshal(body, &map[string]interface{}): a syntax error for bytes
\* that are not JSON, a type error for a JSON array, string or number, and a
\* nil map without error for JSON null.
Unmarshal(body) ==
    IF body.t = "obj" THEN [err |-> <<>>, m |-> body.v]
    ELSE IF body.t = "null" THEN [err |-> <<>>, m |-> <<>>]
    ELSE IF body.t = "invalid"
         THEN [err |-> <<"invalid character looking for beginning of value">>, m |-> <<>>]
         ELSE [err |-> <<"json: cannot unmarshal into Go value of type map[string]interface {}">>,
               m |-> <<>>]

RECURSIVE RawText(_)
RECURSIVE RawItems(_)
RECURSIVE RawMembers(_)
\* The bytes of a JSON text, as text pieces.
RawText(v) ==
    CASE v.t = "invalid" -> v.v
      [] v.t = "null" -> <<"null">>
      [] v.t = "num" -> v.v
      [] v.t = "str" -> <<"\"">> \o v.v \o <<"\"">>
      [] v.t = "arr" -> <<"[">> \o RawItems(v.v) \o <<"]">>
      [] v.t = "obj" -> <<"{">> \o RawMembers(v.v) \o <<"}">>
RawItems(a) ==
    IF a = <<>> THEN <<>>
    ELSE IF Len(a) = 1 THEN RawText(a[1])
    ELSE RawText(a[1]) \o <<",">> \o RawItems(Tail(a))
RawMembers(o) ==
    IF o = <<>> THEN <<>>
    ELSE IF Len(o) = 1 THEN <<"\"", o[1].k, "\"", ":">> \o RawText(o[1].v)
    ELSE <<"\"", o[1].k, "\"", ":">> \o RawText(o[1].v) \o <<",">> \o RawMembers(Tail(o))

(***************************************************************************)
(* Constants of chatHandler                                                *)
(***************************************************************************)
StatusOK == 200
StatusBadRequest == 400
StatusInternalServerError == 500

apiURL == <<"https://integrate.api.nvidia.com/v1/chat/completions">>
ModelId == <<"meta/llama3-70b-instruct">>
SystemPrompt == <<"You are an AI that provides direct answers to coding questions.">>

MsgInvalidBody == <<"Invalid request body">>
MsgInvalidQuestion == <<"Invalid question format or empty question">>
MsgUnexpectedStructure == <<"Unexpected response structure from API">>

\* Variant: the error map also carries an (empty) answer.
JSONErrorWithAnswer(status, msg) ==
    [status |-> status, data |-> [error |-> msg, answer |-> <<>>]]

\* c.Status(status).JSON(fiber.Map{"error": msg})
JSONError(status, msg) == [status |-> status, data |-> [error |-> msg]]

\* c.JSON(fiber.Map{"answer": answer}); the status stays fiber's default, 200.
JSONAnswer(answer) == [status |-> StatusOK, data |-> [answer |-> answer]]

(***************************************************************************)
(* Inputs                                                                  *)
(***************************************************************************)
\* Question strings a client may send.
QuestionTexts == { <<>>, <<" ">>, <<"a">> }

\* Request bodies a client may send to POST /chat/.
ClientBodies ==
    { NotJSON(<<"question=a">>),
      JNull,
      JObj(<<>>),
      JObj(<<Pair("question", JNum)>>) }
    \cup { JObj(<<Pair("question", JStr(q))>>) : q \in QuestionTexts }

Choice(content) == JObj(<<Pair("message", JObj(<<Pair("content", content)>>))>>)
Completion(choices) == JObj(<<Pair("choices", JArr(choices))>>)

\* Bodies the upstream API may send.
UpstreamBodies ==
    { NotJSON(<<"<html>">>),
      JObj(<<>>),
      JObj(<<Pair("choices", JStr(<<"a">>))>>),
      Completion(<<>>),
      Completion(<<JNum>>),
      Completion(<<JObj(<<>>)>>),
      Completion(<<JObj(<<Pair("message", JStr(<<"a">>))>>)>>),
      Completion(<<JObj(<<Pair("message", JObj(<<>>))>>)>>),
      Completion(<<Choice(JNum)>>),
      Completion(<<Choice(JStr(<<>>))>>),
      Completion(<<Choice(JStr(<<"4", "2">>))>>),
      Completion(<<Choice(JStr(<<"4", "2">>)), Choice(JStr(<<"a">>))>>),
      Completion(<<Choice(JStr(<<"4", "2">>)), JNum>>),
      Completion(<<JNum, Choice(JStr(<<"4", "2">>))>>) }

\* Bodies sent along with a status other than 200.
UpstreamErrorBodies == { NotJSON(<<"<html>">>), JObj(<<>>) }

UpstreamErrorStatuses == {201, 503}

\* resp.Status, the status line text of the upstream response.
StatusLine(status) ==
    CASE status = 200 -> "200 OK"
      [] status = 201 -> "201 Created"
      [] status = 503 -> "503 Service Unavailable"
      [] OTHER -> "000"

HttpReply(status, body) == [kind |-> "http", status |-> status, body |-> body]
\* client.Do returned an error.
NetErr == [kind |-> "neterr", status |-> 0, body |-> JNull]
\* client.Do returned a response whose body ioutil.ReadAll could not read.
ReadErr == [kind |-> "readerr", status |-> 0, body |-> JNull]

\* What the single upstream call of a handler can come back with.
UpstreamReplies ==
    { NetErr, ReadErr }
    \cup { HttpReply(StatusOK, b) : b \in UpstreamBodies }
    \cup { HttpReply(st, b) : st \in UpstreamErrorStatuses, b \in UpstreamErrorBodies }

(***************************************************************************)
(* chatHandler, stage by stage                                             *)
(***************************************************************************)
\* Variant: requestData is a package-level variable, so a handler may see the
\* body another handler parsed into it.
SharedRequestBody(r) == reqBody[1]

\* The body the handler of r parses: that of its own fiber.Ctx.
RequestBody(r) == reqBody[r]

\* Variant: the check reads !ok && question == "", which lets "" through.
QuestionOkLax(m) == Index(m, "question").t = "str"

\* question, ok := requestData["question"].(string); !ok || question == ""
QuestionOk(m) ==
    LET q == Index(m, "question") IN q.t = "str" /\ q.v # <<>>

\* The question the handler goes on with: "" when the assertion failed.
Question(m) ==
    LET q == Index(m, "question") IN IF q.t = "str" THEN q.v ELSE <<>>

\* Lines 49-61: the error response of the validator, <<>> when the request passes.
ValidationResult(body) ==
    LET p == Unmarshal(body) IN
    IF p.err # <<>> THEN <<JSONError(StatusBadRequest, MsgInvalidBody)>>
    ELSE IF ~QuestionOk(p.m)
         THEN <<JSONError(StatusBadRequest, MsgInvalidQuestion)>>
         ELSE <<>>

\* Lines 63-78: the payload sent upstream (the sampling parameters are fixed).
RequestPayload(question) ==
    [model |-> ModelId,
     messages |-> << [role |-> "system", content |-> SystemPrompt],
                     [role |-> "user", content |-> question] >>]

\* http.NewRequest(method, url, body): fails on an invalid method or an
\* unparsable URL; <<>> when it succeeds.
NewRequestErr(method, url) ==
    IF method \notin {"GET", "HEAD", "POST", "PUT", "PATCH", "DELETE"}
    THEN <<"net/http: invalid method">>
    ELSE IF url = <<>> THEN <<"parse: empty url">>
    ELSE <<>>

\* Variant: the upstream body is left out of the error text.
UpstreamErrorTextNoBody(status, body) ==
    <<"API returned non-200 status: ", StatusLine(status)>>

\* fmt.Sprintf("API returned non-200 status: %s\nBody: %s", resp.Status, string(body))
UpstreamErrorText(status, body) ==
    <<"API returned non-200 status: ", StatusLine(status), "\nBody: ">> \o RawText(body)

\* Lines 98-124: the error response after client.Do and ReadAll, <<>> when the
\* upstream answered 200 and its body was read.
DoResult(reply) ==
    IF reply.kind = "neterr"
    THEN <<JSONError(StatusInternalServerError,
                     <<"Error sending request: ", "connection refused">>)>>
    ELSE IF reply.kind = "readerr"
    THEN <<JSONError(StatusInternalServerError,
                     <<"Error reading response body: ", "unexpected EOF">>)>>
    ELSE IF reply.status # StatusOK
    THEN <<JSONError(reply.status, UpstreamErrorText(reply.status, reply.body))>>
    ELSE <<>>

\* The response for every shape violation of the upstream envelope.
ShapeError == JSONError(StatusInternalServerError, MsgUnexpectedStructure)

\* Variant: the last choice is consulted.
LastChoice(choices) == choices[Len(choices)]

\* choices[0]
FirstChoice(choices) == choices[1]

\* Variant: a content that is not a string is answered as the empty answer.
ExtractAnswerLax(body) ==
    LET result == Unmarshal(body) IN
    IF result.err # <<>>
    THEN JSONError(StatusInternalServerError,
                   <<"Error parsing JSON response: ">> \o result.err)
    ELSE LET choices == Index(result.m, "choices") IN
    IF choices.t # "arr" \/ Len(choices.v) = 0 THEN ShapeError
    ELSE LET firstChoice == FirstChoice(choices.v) IN
    IF firstChoice.t # "obj" THEN ShapeError
    ELSE LET message == Index(firstChoice.v, "message") IN
    IF message.t # "obj" THEN ShapeError
    ELSE LET answer == Index(message.v, "content") IN
    IF answer.t # "str" THEN JSONAnswer(<<>>)
    ELSE JSONAnswer(answer.v)

\* Lines 128-167: the response computed from an upstream body.
ExtractAnswer(body) ==
    LET result == Unmarshal(body) IN
    IF result.err # <<>>
    THEN JSONError(StatusInternalServerError,
                   <<"Error parsing JSON response: ">> \o result.err)
    ELSE LET choices == Index(result.m, "choices") IN
    IF choices.t # "arr" \/ Len(choices.v) = 0 THEN ShapeError
    ELSE LET firstChoice == FirstChoice(choices.v) IN
    IF firstChoice.t # "obj" THEN ShapeError
    ELSE LET message == Index(firstChoice.v, "message") IN
    IF message.t # "obj" THEN ShapeError
    ELSE LET answer == Index(message.v, "content") IN
    IF answer.t # "str" THEN ShapeError
    ELSE JSONAnswer(answer.v)

\* The stage of the per-request state machine a handler position belongs to.
Stage(p) ==
    CASE p = "idle" -> "Idle"
      [] p = "received" -> "Received"
      [] p = "validating" -> "Validating"
      [] p \in {"invoking", "calling"} -> "Invoking"
      [] p = "extracting" -> "Extracting"
      [] p = "responded" -> "Responded"
      [] OTHER -> "Crashed"

(***************************************************************************)
(* chatHandler, step by step                                               *)
(***************************************************************************)
\* A client's POST /chat/ reaches the relay and a handler is started for it.
Receive(r, body) ==
    /\ pc[r] = "idle"
    /\ pc' = [pc EXCEPT ![r] = "received"]
    /\ reqBody' = [reqBody EXCEPT ![r] = body]
    /\ UNCHANGED <<calls, replies, responses, uiVars>>

\* Lines 41-46: the handler logs the request and reads its configuration.
StartValidation(r) ==
    /\ pc[r] = "received"
    /\ pc' = [pc EXCEPT ![r] = "validating"]
    /\ UNCHANGED <<reqBody, calls, replies, responses, uiVars>>

\* Lines 49-61: BodyParser and the question check.
Validate(r) ==
    /\ pc[r] = "validating"
    /\ LET res == ValidationResult(RequestBody(r)) IN
       /\ responses' = [responses EXCEPT ![r] = @ \o res]
       /\ pc' = [pc EXCEPT ![r] = IF res = <<>> THEN "invoking" ELSE "responded"]
    /\ UNCHANGED <<reqBody, calls, replies, uiVars>>

\* Lines 63-98: build the payload and the request, and call client.Do.
SendUpstream(r) ==
    /\ pc[r] = "invoking"
    /\ LET question == Question(Unmarshal(RequestBody(r)).m)
           err == NewRequestErr("POST", apiURL)
       IN IF err # <<>>
          THEN /\ responses' = [responses EXCEPT ![r] =
                     Append(@, JSONError(StatusInternalServerError,
                                         <<"Error creating request: ">> \o err))]
               /\ pc' = [pc EXCEPT ![r] = "responded"]
               /\ UNCHANGED calls
          ELSE /\ calls' = [calls EXCEPT ![r] =
                     Append(@, [method |-> "POST", url |-> apiURL,
                                payload |-> RequestPayload(question)])]
               /\ pc' = [pc EXCEPT ![r] = "calling"]
               /\ UNCHANGED responses
    /\ UNCHANGED <<reqBody, replies, uiVars>>

\* Variant: a failed client.Do is retried instead of answered.
UpstreamReturnsRetry(r, reply) ==
    /\ pc[r] = "calling"
    /\ LET res == IF reply.kind = "neterr" THEN <<>> ELSE DoResult(reply) IN
       /\ replies' = [replies EXCEPT ![r] = Append(@, reply)]
       /\ responses' = [responses EXCEPT ![r] = @ \o res]
       /\ pc' = [pc EXCEPT ![r] = IF reply.kind = "neterr" THEN "invoking"
                                  ELSE IF res = <<>> THEN "extracting"
                                  ELSE "responded"]
    /\ UNCHANGED <<reqBody, calls, uiVars>>

\* Variant: the error of client.Do is not checked, and the handler panics on
\* the nil response without answering.
UpstreamReturnsNoErrCheck(r, reply) ==
    /\ pc[r] = "calling"
    /\ LET res == IF reply.kind = "neterr" THEN <<>> ELSE DoResult(reply) IN
       /\ replies' = [replies EXCEPT ![r] = Append(@, reply)]
       /\ responses' = [responses EXCEPT ![r] = @ \o res]
       /\ pc' = [pc EXCEPT ![r] = IF reply.kind = "neterr" THEN "panicked"
                                  ELSE IF res = <<>> THEN "extracting"
                                  ELSE "responded"]
    /\ UNCHANGED <<reqBody, calls, uiVars>>

\* Lines 98-124: client.Do returns with reply (a response or an error), the body
\* is read and the status checked.
UpstreamReturns(r, reply) ==
    /\ pc[r] = "calling"
    /\ LET res == DoResult(reply) IN
       /\ replies' = [replies EXCEPT ![r] = Append(@, reply)]
       /\ responses' = [responses EXCEPT ![r] = @ \o res]
       /\ pc' = [pc EXCEPT ![r] = IF res = <<>> THEN "extracting" ELSE "responded"]
    /\ UNCHANGED <<reqBody, calls, uiVars>>

\* Lines 128-167: parse the upstream body and extract the answer.
Extract(r) ==
    /\ pc[r] = "extracting"
    /\ responses' = [responses EXCEPT ![r] = Append(@, ExtractAnswer(replies[r][1].body))]
    /\ pc' = [pc EXCEPT ![r] = "responded"]
    /\ UNCHANGED <<reqBody, calls, replies, uiVars>>

Init ==
    /\ pc = [r \in Requests |-> "idle"]
    /\ reqBody = [r \in Requests |-> JNull]
    /\ calls = [r \in Requests |-> <<>>]
    /\ replies = [r \in Requests |-> <<>>]
    /\ responses = [r \in Requests |-> <<>>]
    /\ messages = <<>>
    /\ input = <<>>
    /\ isLoading = FALSE
    /\ uiPc = "idle"
    /\ uiSlot = 0
    /\ uiLog = <<>>

\* The relay serving requests of arbitrary clients.
Next ==
    \/ \E r \in Requests, body \in ClientBodies : Receive(r, body)
    \/ \E r \in Requests : StartValidation(r)
    \/ \E r \in Requests : Validate(r)
    \/ \E r \in Requests : SendUpstream(r)
    \/ \E r \in Requests, reply \in UpstreamReplies : UpstreamReturns(r, reply)
    \/ \E r \in Requests : Extract(r)

Spec == Init /\ [][Next]_vars

(***************************************************************************)
(* The chat UI: App.jsx                                                    *)
(***************************************************************************)
\* Texts the user may type into the input box.
InputTexts == { <<>>, <<" ">>, <<"a">>, <<" ", "a">> }

\* JavaScript values held by a message's content: a string or undefined.
Undefined == [def |-> FALSE, str |-> <<>>]
JSString(s) == [def |-> TRUE, str |-> s]

RECURSIVE TrimStart(_)
TrimStart(s) == IF s # <<>> /\ Head(s) = " " THEN TrimStart(Tail(s)) ELSE s
RECURSIVE TrimEnd(_)
TrimEnd(s) ==
    IF s # <<>> /\ s[Len(s)] = " " THEN TrimEnd(SubSeq(s, 1, Len(s) - 1)) ELSE s
\* String.prototype.trim
Trim(s) == TrimEnd(TrimStart(s))

\* data[key] of the parsed response data: undefined when the key is absent.
Field(data, key) == IF key \in DOMAIN data THEN JSString(data[key]) ELSE Undefined

\* v || fallback
JsOr(v, fallback) == IF v.def /\ v.str # <<>> THEN v ELSE JSString(fallback)

MsgNoResponse == <<"No response received from the server.">>
MsgGenericError == <<"An error occurred while fetching the answer.">>

\* axios resolves the promise for a status in 200..299 and rejects it otherwise.
ValidateStatus(status) == status >= 200 /\ status < 300

\* Lines 27-38: content of the bot message for a response received from the relay.
BotContent(resp) ==
    IF ValidateStatus(resp.status)
    THEN Field(resp.data, "answer")
    ELSE JsOr(Field(resp.data, "error"), MsgGenericError)

\* Line 67: onChange of the input box.
Type(text) ==
    /\ input # text
    /\ input' = text
    /\ UNCHANGED <<relayVars, messages, isLoading, uiPc, uiSlot, uiLog>>

\* Lines 17-27: handleSubmit up to the axios.post; the Send button is disabled
\* while isLoading (line 71).  At most NReq questions are submitted in a run.
Submit ==
    /\ uiPc = "idle"
    /\ ~isLoading
    /\ Len(uiLog) < NReq
    /\ Trim(input) # <<>>
    /\ messages' = Append(messages, [role |-> "user", content |-> JSString(input)])
    /\ input' = <<>>
    /\ isLoading' = TRUE
    /\ uiPc' = "posting"
    /\ UNCHANGED <<relayVars, uiSlot, uiLog>>

\* The question of the pending axios.post: the input handleSubmit captured.
PostedQuestion == messages[Len(messages)].content.str

\* The post reaches the relay, which starts a handler for it.
Deliver(r) ==
    /\ uiPc = "posting"
    /\ pc[r] = "idle"
    /\ \A q \in Requests : q < r => pc[q] # "idle"
    /\ pc' = [pc EXCEPT ![r] = "received"]
    /\ reqBody' = [reqBody EXCEPT ![r] = JObj(<<Pair("question", JStr(PostedQuestion))>>)]
    /\ uiPc' = "awaiting"
    /\ uiSlot' = r
    /\ UNCHANGED <<calls, replies, responses, messages, input, isLoading, uiLog>>

\* Lines 30-42 with error.request set: no response was received.
NoResponse ==
    /\ uiPc \in {"posting", "awaiting"}
    /\ messages' = Append(messages, [role |-> "bot", content |-> JSString(MsgNoResponse)])
    /\ isLoading' = FALSE
    /\ uiPc' = "idle"
    /\ uiLog' = Append(uiLog, [slot |-> uiSlot, received |-> FALSE])
    /\ uiSlot' = 0
    /\ UNCHANGED <<relayVars, input>>

\* Lines 27-42: the relay's response arrives and the promise settles.
Resolve ==
    /\ uiPc = "awaiting"
    /\ pc[uiSlot] = "responded"
    /\ messages' = Append(messages,
                          [role |-> "bot", content |-> BotContent(responses[uiSlot][1])])
    /\ isLoading' = FALSE
    /\ uiPc' = "idle"
    /\ uiLog' = Append(uiLog, [slot |-> uiSlot, received |-> TRUE])
    /\ uiSlot' = 0
    /\ UNCHANGED <<relayVars, input>>

\* The chat UI in front of the relay: every request comes from handleSubmit.
UINext ==
    \/ \E text \in InputTexts : Type(text)
    \/ Submit
    \/ \E r \in Requests : Deliver(r)
    \/ NoResponse
    \/ Resolve
    \/ \E r \in Requests : StartValidation(r)
    \/ \E r \in Requests : Validate(r)
    \/ \E r \in Requests : SendUpstream(r)
    \/ \E r \in Requests, reply \in UpstreamReplies : UpstreamReturns(r, reply)
    \/ \E r \in Requests : Extract(r)

UISpec == Init /\ [][UINext]_vars

\* The relay under the scheduling of the host: every started handler step is
\* eventually taken, and every issued upstream call eventually returns or fails.
\* Liveness is checked with one input per branch of the handler.
BranchBodies ==
    { NotJSON(<<"question=a">>),
      JObj(<<>>),
      JObj(<<Pair("question", JStr(<<"a">>))>>) }

BranchReplies ==
    { NetErr, ReadErr,
      HttpReply(503, NotJSON(<<"<html>">>)),
      HttpReply(StatusOK, NotJSON(<<"<html>">>)),
      HttpReply(StatusOK, JObj(<<>>)),
      HttpReply(StatusOK, Completion(<<JNum>>)),
      HttpReply(StatusOK, Completion(<<JObj(<<>>)>>)),
      HttpReply(StatusOK, Completion(<<Choice(JNum)>>)),
      HttpReply(StatusOK, Completion(<<Choice(JStr(<<"4", "2">>))>>)) }

FairNext ==
    \/ \E r \in Requests, body \in BranchBodies : Receive(r, body)
    \/ \E r \in Requests : StartValidation(r)
    \/ \E r \in Requests : Validate(r)
    \/ \E r \in Requests : SendUpstream(r)
    \/ \E r \in Requests, reply \in BranchReplies : UpstreamReturns(r, reply)
    \/ \E r \in Requests : Extract(r)

FairSpec ==
    /\ Init
    /\ [][FairNext]_vars
    /\ \A r \in Requests :
         /\ WF_vars(StartValidation(r))
         /\ WF_vars(Validate(r))
         /\ WF_vars(SendUpstream(r))
         /\ WF_vars(\E reply \in BranchReplies : UpstreamReturns(r, reply))
         /\ WF_vars(Extract(r))

(***************************************************************************)
(* Properties                                                              *)
(***************************************************************************)
Responded(r) == pc[r] = "responded"

\* The upstream answered the handler of r with an HTTP response whose body was read.
GotHttp(r) == replies[r] # <<>> /\ replies[r][1].kind = "http"

\* sub occurs in s as a contiguous run of text pieces.
Contains(s, sub) ==
    \E i \in 0..(Len(s) - Len(sub)) : SubSeq(s, i + 1, i + Len(sub)) = sub

HasKey(o, key) == \E i \in 1..Len(o) : o[i].k = key
ValueOf(o, key) == o[CHOOSE i \in 1..Len(o) : o[i].k = key].v

\* The request body is a JSON object whose question is a non-empty string.
AcceptedRequest(body) ==
    /\ body.t = "obj"
    /\ HasKey(body.v, "question")
    /\ ValueOf(body.v, "question").t = "str"
    /\ ValueOf(body.v, "question").v # <<>>

\* The question of a decoded request body is absent, not a string, empty or
\* made of whitespace only.
BlankQuestion(body) ==
    \/ ~HasKey(body.v, "question")
    \/ ValueOf(body.v, "question").t # "str"
    \/ Trim(ValueOf(body.v, "question").v) = <<>>

\* The upstream body has a choices array with a first element.
HasFirstChoice(body) ==
    /\ body.t = "obj"
    /\ HasKey(body.v, "choices")
    /\ ValueOf(body.v, "choices").t = "arr"
    /\ ValueOf(body.v, "choices").v # <<>>

ChoiceZero(body) == ValueOf(body.v, "choices").v[1]

\* choices[0].message.content is present and a string.
HasContentString(body) ==
    /\ HasFirstChoice(body)
    /\ ChoiceZero(body).t = "obj"
    /\ HasKey(ChoiceZero(body).v, "message")
    /\ ValueOf(ChoiceZero(body).v, "message").t = "obj"
    /\ HasKey(ValueOf(ChoiceZero(body).v, "message").v, "content")
    /\ ValueOf(ValueOf(ChoiceZero(body).v, "message").v, "content").t = "str"

ContentString(body) == ValueOf(ValueOf(ChoiceZero(body).v, "message").v, "content").v

\* The shape of every body the upstream may send, computed once.
ShapeOf ==
    [b \in UpstreamBodies \cup UpstreamErrorBodies \cup {JNull} |->
        [object |-> b.t = "obj",
         hasFirst |-> HasFirstChoice(b),
         first |-> IF HasFirstChoice(b) THEN ChoiceZero(b) ELSE JNull,
         hasContent |-> HasContentString(b),
         content |-> IF HasContentString(b) THEN ContentString(b) ELSE <<>>,
         raw |-> RawText(b)]]

\* Whether each request body a client may send passes the validator's contract.
AcceptedOf == [b \in ClientBodies |-> AcceptedRequest(b)]

InvalidQuestionResponse ==
    [status |-> 400, data |-> [error |-> <<"Invalid question format or empty question">>]]
UnexpectedShapeResponse ==
    [status |-> 500, data |-> [error |-> <<"Unexpected response structure from API">>]]

\* C1: every response chatHandler emits carries exactly one of the keys
\* answer and error, never both and never neither.
C1_ExactlyOneOfAnswerError ==
    \A r \in Requests : \A i \in 1..Len(responses[r]) :
        Cardinality(DOMAIN responses[r][i].data \cap {"answer", "error"}) = 1

C1_Witness ==
    \E r1, r2 \in Requests :
        /\ Responded(r1) /\ "answer" \in DOMAIN responses[r1][1].data
        /\ Responded(r2) /\ "error" \in DOMAIN responses[r2][1].data

\* C2 (as claimed): by the time a request's response has been emitted, exactly
\* one upstream call has been made for it, never 0 and never more.
C2_ExactlyOneUpstreamCall ==
    \A r \in Requests : Responded(r) => Len(calls[r]) = 1

\* C2 (amended): at most one upstream call is made per request; a responded
\* request has exactly one when it passed validation and none when the
\* validator rejected it.
C2_AtMostOneUpstreamCall ==
    \A r \in Requests :
        /\ Len(calls[r]) <= 1
        /\ Responded(r) =>
             Len(calls[r]) = IF AcceptedOf[reqBody[r]] THEN 1 ELSE 0

C2_Witness ==
    \E r1, r2 \in Requests :
        /\ Responded(r1) /\ Len(calls[r1]) = 1
        /\ Responded(r2) /\ Len(calls[r2]) = 0

\* C3: a request body that decodes as a JSON object whose question is absent,
\* not a string, empty or whitespace-only is answered 400 with the
\* InvalidQuestion error, and no upstream call is made for it.
C3_BlankQuestionRejected ==
    \A r \in Requests :
        (pc[r] # "idle" /\ reqBody[r].t = "obj" /\ BlankQuestion(reqBody[r])) =>
            /\ calls[r] = <<>>
            /\ Responded(r) => responses[r] = <<InvalidQuestionResponse>>

\* C4: an upstream response with a status outside 2xx is answered with that
\* same status and an error text containing the upstream status and the raw
\* upstream body, after exactly one upstream call.
C4_UpstreamErrorPassedThrough ==
    \A r \in Requests :
        (Responded(r) /\ GotHttp(r) /\ ~(replies[r][1].status \in 200..299)) =>
            /\ Len(responses[r]) = 1
            /\ responses[r][1].status = replies[r][1].status
            /\ DOMAIN responses[r][1].data = {"error"}
            /\ Contains(responses[r][1].data.error, <<StatusLine(replies[r][1].status)>>)
            /\ Contains(responses[r][1].data.error, ShapeOf[replies[r][1].body].raw)
            /\ Len(calls[r]) = 1
            /\ Len(replies[r]) = 1

C4_Witness ==
    \E r \in Requests :
        /\ Responded(r)
        /\ replies[r] = <<HttpReply(503, NotJSON(<<"<html>">>))>>
        /\ responses[r][1].status = 503

\* C5 (as claimed): an upstream response with any 2xx status whose body is a
\* JSON object without a well-shaped choices[0].message.content is answered
\* 500 with the UnexpectedUpstreamShape error.
C5_ShapeErrorForAny2xx ==
    \A r \in Requests :
        (/\ Responded(r) /\ GotHttp(r)
         /\ replies[r][1].status \in 200..299
         /\ ShapeOf[replies[r][1].body].object
         /\ ~ShapeOf[replies[r][1].body].hasContent) =>
            responses[r] = <<UnexpectedShapeResponse>>

\* C5 (amended): only status 200 hands the body to the extractor, which
\* answers every mis-shaped JSON object with 500 and the single
\* UnexpectedUpstreamShape error; the other 2xx statuses are answered like
\* every non-200 status, with the upstream status and its error text.
C5_ShapeErrorFor200 ==
    \A r \in Requests :
        /\ (pc[r] = "extracting" => GotHttp(r) /\ replies[r][1].status = 200)
        /\ (Responded(r) /\ GotHttp(r) /\ ShapeOf[replies[r][1].body].object
              /\ ~ShapeOf[replies[r][1].body].hasContent) =>
            /\ replies[r][1].status = 200 => responses[r] = <<UnexpectedShapeResponse>>
            /\ replies[r][1].status \in 201..299 =>
                  /\ Len(responses[r]) = 1
                  /\ responses[r][1].status = replies[r][1].status
                  /\ DOMAIN responses[r][1].data = {"error"}
                  /\ Contains(responses[r][1].data.error,
                              <<"API returned non-200 status: ">>)

C5_Witness ==
    \E r1, r2 \in Requests :
        /\ Responded(r1)
        /\ replies[r1] = <<HttpReply(200, Completion(<<Choice(JNum)>>))>>
        /\ responses[r1] = <<UnexpectedShapeResponse>>
        /\ Responded(r2)
        /\ replies[r2] = <<HttpReply(201, JObj(<<>>))>>
        /\ responses[r2][1].status = 201

\* C6: a body handed to the extractor whose choices[0].message.content is a
\* string s is answered 200 with {"answer": s}, s unchanged, and two bodies
\* that agree on choices[0] get the same response whatever their later choices.
C6_AnswerIsFirstChoiceContent ==
    /\ \A r \in Requests :
         (/\ Responded(r) /\ GotHttp(r) /\ replies[r][1].status = 200
          /\ ShapeOf[replies[r][1].body].hasContent) =>
            responses[r] =
                <<[status |-> 200, data |-> [answer |-> ShapeOf[replies[r][1].body].content]]>>
    /\ \A r1, r2 \in Requests :
         (/\ r1 # r2
          /\ Responded(r1) /\ GotHttp(r1) /\ replies[r1][1].status = 200
          /\ Responded(r2) /\ GotHttp(r2) /\ replies[r2][1].status = 200
          /\ ShapeOf[replies[r1][1].body].hasFirst
          /\ ShapeOf[replies[r2][1].body].hasFirst
          /\ ShapeOf[replies[r1][1].body].first = ShapeOf[replies[r2][1].body].first) =>
            responses[r1] = responses[r2]

C6_Witness ==
    \E r1, r2 \in Requests :
        /\ Responded(r1) /\ Responded(r2)
        /\ replies[r1] = <<HttpReply(200, Completion(<<Choice(JStr(<<"4", "2">>)), JNum>>))>>
        /\ replies[r2] =
             <<HttpReply(200, Completion(<<Choice(JStr(<<"4", "2">>)), Choice(JStr(<<"a">>))>>))>>
        /\ responses[r1] = <<[status |-> 200, data |-> [answer |-> <<"4", "2">>]]>>
        /\ responses[r2] = responses[r1]

\* What a handler run alone does with a request body: its upstream calls ...
CallsAlone(body) ==
    IF ValidationResult(body) # <<>> THEN <<>>
    ELSE <<[method |-> "POST", url |-> apiURL,
            payload |-> RequestPayload(Question(Unmarshal(body).m))]>>

\* ... and its response, given what its upstream call came back with.
OutcomeAlone(body, reps) ==
    IF ValidationResult(body) # <<>> THEN ValidationResult(body)
    ELSE IF reps = <<>> THEN <<>>
    ELSE IF DoResult(reps[1]) # <<>> THEN DoResult(reps[1])
    ELSE <<ExtractAnswer(reps[1].body)>>

\* Both computed once for every request body and every reply.
CallsAloneOf == [b \in ClientBodies |-> CallsAlone(b)]
OutcomeAloneOf ==
    [b \in ClientBodies |->
        [reps \in {<<>>} \cup {<<x>> : x \in UpstreamReplies} |-> OutcomeAlone(b, reps)]]

\* C7: with any number of handlers running concurrently, each request's
\* upstream call and response are those it would have if handled alone,
\* determined by its own body and its own upstream reply; two identical valid
\* requests make two separate upstream calls and nothing is reused.
C7_HandlersIndependent ==
    /\ \A r \in Requests :
         /\ pc[r] \in {"calling", "extracting", "responded"} =>
              calls[r] = CallsAloneOf[reqBody[r]]
         /\ Responded(r) =>
              /\ responses[r] = OutcomeAloneOf[reqBody[r]][replies[r]]
              /\ Len(responses[r]) = 1
              /\ Len(replies[r]) = Len(calls[r])
    /\ \A r1, r2 \in Requests :
         (/\ r1 # r2 /\ Responded(r1) /\ Responded(r2)
          /\ reqBody[r1] = reqBody[r2] /\ AcceptedOf[reqBody[r1]]) =>
            Len(calls[r1]) + Len(calls[r2]) = 2

C7_Witness ==
    \E r1, r2 \in Requests :
        /\ r1 # r2 /\ Responded(r1) /\ Responded(r2)
        /\ reqBody[r1] = reqBody[r2] /\ AcceptedRequest(reqBody[r1])
        /\ calls[r1] = calls[r2] /\ Len(calls[r1]) = 1
        /\ replies[r1] # replies[r2]
        /\ responses[r1] # responses[r2]

\* C8: under fair scheduling of the handler's steps and an upstream call that
\* eventually returns or fails, every received request eventually reaches
\* Responded with exactly one response emitted, and no response is emitted
\* before that.
C8_EventuallyResponded ==
    /\ \A r \in Requests :
         (pc[r] # "idle") ~> (Responded(r) /\ Len(responses[r]) = 1)
    /\ [](\A r \in Requests : Len(responses[r]) = IF Responded(r) THEN 1 ELSE 0)

C8_Witness ==
    /\ \A r \in Requests : Responded(r) /\ Len(responses[r]) = 1
    /\ \E r \in Requests : replies[r] = <<NetErr>>
    /\ \E r \in Requests : replies[r] = <<ReadErr>>

StageEdges ==
    { <<"Idle", "Received">>,
      <<"Received", "Validating">>,
      <<"Validating", "Invoking">>, <<"Validating", "Responded">>,
      <<"Invoking", "Extracting">>, <<"Invoking", "Responded">>,
      <<"Extracting", "Responded">> }

StageStep(r) ==
    LET from == Stage(pc[r])
        to == Stage(pc'[r])
    IN /\ from # to => <<from, to>> \in StageEdges
       /\ (from # to /\ to = "Responded") =>
             /\ Len(responses'[r]) = Len(responses[r]) + 1
             /\ from \in {"Validating", "Invoking"} =>
                   DOMAIN responses'[r][1].data = {"error"}
       /\ (from = to \/ to # "Responded") => responses'[r] = responses[r]
       /\ calls'[r] # calls[r] =>
             /\ from = "Invoking" /\ to = "Invoking"
             /\ calls[r] = <<>>
             /\ AcceptedRequest(reqBody[r])
       /\ (from # to /\ to = "Extracting") =>
             /\ replies'[r] # <<>>
             /\ replies'[r][1].kind = "http"
             /\ replies'[r][1].status \in 200..299
             /\ Len(calls[r]) = 1

\* C9: each request moves through Received, Validating, Invoking, Extracting,
\* Responded in that order: every stage advances to the next one or goes
\* to Responded with an error response, no stage is entered twice, the
\* upstream call is made only after validation succeeded, extraction starts
\* only after the upstream call returned a successful status, and nothing
\* leads back to Invoking.
C9_StageOrder == [][\A r \in Requests : StageStep(r)]_vars

C9_Witness ==
    \E r1, r2 \in Requests :
        /\ Responded(r1) /\ Len(calls[r1]) = 1 /\ GotHttp(r1)
        /\ "answer" \in DOMAIN responses[r1][1].data
        /\ Responded(r2) /\ calls[r2] = <<>>
        /\ responses[r2][1].status = 400

\* C10: every finished handleSubmit appended the user message and then
\* exactly one bot message and cleared isLoading; the bot message is the
\* answer when the relay responded with answer, the relay's error string
\* when it responded with an error body whatever the status, and the fixed
\* no-response text when no response was received.
C10_BotMessageShowsRelayOutcome ==
    /\ uiPc = "idle" => (~isLoading /\ Len(messages) = 2 * Len(uiLog))
    /\ uiPc # "idle" => (isLoading /\ Len(messages) = 2 * Len(uiLog) + 1)
    /\ \A i \in 1..Len(uiLog) :
         /\ messages[2 * i - 1].role = "user"
         /\ Trim(messages[2 * i - 1].content.str) # <<>>
         /\ messages[2 * i].role = "bot"
         /\ IF ~uiLog[i].received
            THEN messages[2 * i].content = JSString(MsgNoResponse)
            ELSE LET data == responses[uiLog[i].slot][1].data IN
                 /\ "answer" \in DOMAIN data =>
                       messages[2 * i].content = JSString(data.answer)
                 /\ "error" \in DOMAIN data =>
                       messages[2 * i].content = JSString(data.error)

====
